---------------------------- MODULE Spec2Model ----------------------------
(* HoloLearn: the response orchestration core of src/unnamed/part_000      *)
(* (SceneManager, VoiceSystem, QuizEngine, AIOrchestrator, UIManager) as a *)
(* state machine over the browser's event loop: every event handler is a   *)
(* task, every continuation after an await is a microtask, and no task     *)
(* starts while a microtask is pending.                                    *)
(*                                                                         *)
(* Strings the code inspects (the query text) are sequences of one-letter  *)
(* strings, so that toLowerCase, trim and includes are computed.  Numbers  *)
(* with decimals are in thousandths (0.01 is 10, 1.5 is 1500).  A value    *)
(* that may be undefined or null is a sequence of length 0 or 1.           *)
(*                                                                         *)
(* The page of app.js (the scene prototype with the topic buttons) is the  *)
(* specification AppSpec: its state is activeObjects and scene, which the  *)
(* handlers of part_000 never touch.  Its frame loop changes rotations and *)
(* positions only, which the meshes of the model do not carry.             *)
EXTENDS Integers, Sequences, FiniteSets, TLC

VARIABLES
    currentTopic,   \* UIManager.currentTopic ("null" before the first loadTopic)
    models,         \* SceneManager.models: model key -> <<>> or <<instance>>
    sceneObjs,      \* the model instances that are children of the THREE scene
    animations,     \* SceneManager.animations
    nextId,         \* identity of the next object a GLTF load creates
    loads,          \* GLTF loads in flight
    execs,          \* the executeSceneActions invocations, in call order
    micro,          \* the microtask queue: continuations of settled awaits
    chat,           \* the children of #chat-messages
    consoleErrors,  \* what console.error has printed
    unhandled,      \* errors that rejected a handler's promise (nothing catches them)
    currentQuiz,    \* QuizEngine.currentQuiz
    quizShown,      \* the quiz the quiz container displays
    quizFeedback,   \* the feedback element's text
    isVoiceEnabled, \* VoiceSystem.isVoiceEnabled
    synthPresent,   \* whether window.speechSynthesis exists in this browser
    spoken,         \* the utterances handed to synth.speak
    calls,          \* the handler invocations so far, in order
    lastQuery,      \* processQuery's locals at its latest call: arguments,
    lastIntent,     \*   the classified intent,
    lastResponse,   \*   and the returned value
    activeObjects,  \* app.js: the list activeObjects
    scene           \* app.js: the children of its THREE scene

vars == <<currentTopic, models, sceneObjs, animations, nextId, loads, execs,
          micro, chat, consoleErrors, unhandled, currentQuiz, quizShown,
          quizFeedback, isVoiceEnabled, synthPresent, spoken, calls,
          lastQuery, lastIntent, lastResponse, activeObjects, scene>>

---------------------------------------------------------------------------
(* Bounds of the model. *)

\* handler invocations (topic clicks, queries, direct executor calls) after start-up
MaxCalls == 2
\* GLTF loads that fail in one run
MaxLoadErrors == 1
\* fragments a query of the resolver specification is built from
MaxFrags == 2
\* topic-button clicks on the page of app.js
MaxClicks == 3

---------------------------------------------------------------------------
(* Strings. *)

Chars(s) ==
    CASE s = "explain"  -> <<"e","x","p","l","a","i","n">>
      [] s = "Explain"  -> <<"E","x","p","l","a","i","n">>
      [] s = "EXPLAIN"  -> <<"E","X","P","L","A","I","N">>
      [] s = "expl"     -> <<"e","x","p","l">>
      [] s = "ain"      -> <<"a","i","n">>
      [] s = "scale"    -> <<"s","c","a","l","e">>
      [] s = "Scale"    -> <<"S","c","a","l","e">>
      [] s = "function" -> <<"f","u","n","c","t","i","o","n">>
      [] s = "eruption" -> <<"e","r","u","p","t","i","o","n">>
      [] s = "Eruption" -> <<"E","r","u","p","t","i","o","n">>
      [] s = "hello"    -> <<"h","e","l","l","o">>
      [] s = " "        -> <<" ">>
      [] s = ""         -> <<>>

UpperToLower ==
    [A |-> "a", C |-> "c", E |-> "e", I |-> "i", L |-> "l", N |-> "n",
     P |-> "p", S |-> "s", X |-> "x"]

LowerChar(c) == IF c \in DOMAIN UpperToLower THEN UpperToLower[c] ELSE c

ToLowerCase(s) == [i \in DOMAIN s |-> LowerChar(s[i])]

Includes(s, k) ==
    \E i \in 0..(Len(s) - Len(k)) : SubSeq(s, i + 1, i + Len(k)) = k

RECURSIVE TrimStart(_)
TrimStart(s) ==
    IF s /= <<>> /\ Head(s) = " " THEN TrimStart(Tail(s)) ELSE s

RECURSIVE TrimEnd(_)
TrimEnd(s) ==
    IF s /= <<>> /\ s[Len(s)] = " " THEN TrimEnd(SubSeq(s, 1, Len(s) - 1)) ELSE s

Trim(s) == TrimEnd(TrimStart(s))

---------------------------------------------------------------------------
(* The static tables. *)

Vec(x, y, z) == [x |-> x, y |-> y, z |-> z]

Origin == Vec(0, 0, 0)

LoadModelAction(model, position, scale) ==
    [type |-> "loadModel", model |-> model, position |-> position,
     scale |-> scale, animation |-> "", object |-> "", center |-> <<>>,
     speed |-> <<>>, radius |-> <<>>, intensity |-> <<>>]

OrbitAction(object, center, speed, radius) ==
    [type |-> "animate", model |-> "", position |-> <<>>, scale |-> <<>>,
     animation |-> "orbit", object |-> object, center |-> center,
     speed |-> speed, radius |-> radius, intensity |-> <<>>]

BeatAction(animation, object, speed, intensity) ==
    [type |-> "animate", model |-> "", position |-> <<>>, scale |-> <<>>,
     animation |-> animation, object |-> object, center |-> <<>>,
     speed |-> speed, radius |-> <<>>, intensity |-> intensity]

availableModels == {"sun", "earth", "heart", "volcano"}

topics ==
    ( "solar-system" :> [ name |-> "Solar System", responses |->
        [ explain |->
            [ narration |-> "This is our solar system.",
              actions |-> << LoadModelAction("sun", <<Origin>>, <<1500>>),
                             LoadModelAction("earth", <<Vec(3000, 0, 0)>>, <<700>>),
                             OrbitAction("earth", <<Origin>>, <<10>>, <<3000>>) >>,
              quiz |-> << [ question |-> "What keeps Earth in orbit around the Sun?",
                            options |-> << "Electromagnetic forces", "Gravity",
                                           "Solar wind", "Centrifugal force" >>,
                            correctAnswer |-> "Gravity",
                            correctFeedback |-> "Correct! Gravity is the force",
                            incorrectFeedback |-> "Not quite. The correct answer is Gravity" ] >> ],
          scale |->
            [ narration |-> "The scale of our solar system is enormous.",
              actions |-> << LoadModelAction("sun", <<Origin>>, <<2000>>),
                             LoadModelAction("earth", <<Vec(5000, 0, 0)>>, <<200>>),
                             OrbitAction("earth", <<Origin>>, <<5>>, <<5000>>) >>,
              quiz |-> <<>> ] ] ] ) @@
    ( "heart-anatomy" :> [ name |-> "Heart Anatomy", responses |->
        [ explain |->
            [ narration |-> "This is a model of the human heart.",
              actions |-> << LoadModelAction("heart", <<Origin>>, <<1200>>),
                             BeatAction("beat", "heart", <<100>>, <<100>>) >>,
              quiz |-> << [ question |-> "How many chambers does the human heart have?",
                            options |-> << "2", "3", "4", "5" >>,
                            correctAnswer |-> "4",
                            correctFeedback |-> "That's right! The heart has four chambers",
                            incorrectFeedback |-> "Actually, the human heart has four chambers" ] >> ],
          function |->
            [ narration |-> "The heart functions as a pump.",
              actions |-> << LoadModelAction("heart", <<Origin>>, <<1200>>),
                             BeatAction("beat", "heart", <<150>>, <<150>>) >>,
              quiz |-> <<>> ] ] ] ) @@
    ( "volcano" :> [ name |-> "Volcano", responses |->
        [ explain |->
            [ narration |-> "This is a volcano.",
              actions |-> << LoadModelAction("volcano", <<Vec(0, -1000, 0)>>, <<1500>>) >>,
              quiz |-> << [ question |-> "What is molten rock beneath the Earth's surface called?",
                            options |-> << "Lava", "Magma", "Igneous", "Basalt" >>,
                            correctAnswer |-> "Magma",
                            correctFeedback |-> "Correct! Magma is molten rock below the surface",
                            incorrectFeedback |-> "Not quite. The correct answer is Magma." ] >> ],
          eruption |->
            [ narration |-> "During a volcanic eruption, magma rises",
              actions |-> << LoadModelAction("volcano", <<Vec(0, -1000, 0)>>, <<1500>>),
                             BeatAction("pulse", "volcano", <<200>>, <<50>>) >>,
              quiz |-> <<>> ] ] ] )

---------------------------------------------------------------------------
(* AIOrchestrator.processQuery. *)

\* the classification with the scale rule tried before the explain rule
detectIntentScaleFirst(topic, query) ==
    IF Includes(ToLowerCase(query), Chars("scale")) /\ topic = "solar-system"
    THEN "scale"
    ELSE IF Includes(ToLowerCase(query), Chars("explain")) THEN "explain"
    ELSE IF Includes(ToLowerCase(query), Chars("function")) /\ topic = "heart-anatomy"
         THEN "function"
    ELSE IF Includes(ToLowerCase(query), Chars("eruption")) /\ topic = "volcano"
         THEN "eruption"
    ELSE "unknown"

\* lines 379-389: the intent the query is classified as
detectIntent(topic, query) ==
    IF Includes(ToLowerCase(query), Chars("explain")) THEN "explain"
    ELSE IF Includes(ToLowerCase(query), Chars("scale")) /\ topic = "solar-system"
         THEN "scale"
    ELSE IF Includes(ToLowerCase(query), Chars("function")) /\ topic = "heart-anatomy"
         THEN "function"
    ELSE IF Includes(ToLowerCase(query), Chars("eruption")) /\ topic = "volcano"
         THEN "eruption"
    ELSE "unknown"

\* the synthetic template of lines 406-409 (it has no quiz property)
fallbackResponse ==
    [ narration |-> "I'm not sure how to answer that.",
      actions |-> <<>>,
      quiz |-> <<>> ]

\* processQuery without the check of line 392: an unknown topic gets the
\* synthetic bundle
processQueryNoTopicCheck(registry, topic, query) ==
    LET intent == detectIntent(topic, query) IN
    IF topic \notin DOMAIN registry
    THEN << [topic |-> topic, intent |-> "explain", response |-> fallbackResponse] >>
    ELSE LET responses == registry[topic].responses IN
         IF intent \in DOMAIN responses
         THEN << [topic |-> topic, intent |-> intent, response |-> responses[intent]] >>
         ELSE << [topic |-> topic, intent |-> "explain", response |-> responses["explain"]] >>

\* processQuery answering an intent without a template with the synthetic
\* template, whether the topic has an explain template or not
processQueryFallbackFirst(registry, topic, query) ==
    LET intent == detectIntent(topic, query) IN
    IF topic \notin DOMAIN registry THEN <<>>
    ELSE LET responses == registry[topic].responses IN
         IF intent \in DOMAIN responses
         THEN << [topic |-> topic, intent |-> intent, response |-> responses[intent]] >>
         ELSE << [topic |-> topic, intent |-> "explain", response |-> fallbackResponse] >>

\* processQuery whose redirect keeps the classified intent in the bundle
processQueryKeepsIntent(registry, topic, query) ==
    LET intent == detectIntent(topic, query) IN
    IF topic \notin DOMAIN registry THEN <<>>
    ELSE LET responses == registry[topic].responses IN
         IF intent \in DOMAIN responses
         THEN << [topic |-> topic, intent |-> intent, response |-> responses[intent]] >>
         ELSE << [topic |-> topic, intent |-> intent, response |-> responses["explain"]] >>

\* lines 391-410, with this.topics passed as registry: <<>> is null, <<b>> the
\* bundle b
processQuery(registry, topic, query) ==
    LET intent == detectIntent(topic, query) IN
    IF topic \notin DOMAIN registry THEN <<>>
    ELSE LET responses == registry[topic].responses IN
         IF intent \in DOMAIN responses
         THEN << [topic |-> topic, intent |-> intent, response |-> responses[intent]] >>
         ELSE << [topic |-> topic, intent |-> "explain",
                  response |-> IF "explain" \in DOMAIN responses
                               THEN responses["explain"]
                               ELSE fallbackResponse] >>

---------------------------------------------------------------------------
(* The handlers' view of the mutable state: one record, passed through the *)
(* operators below as `this` is passed through the methods.  threw holds   *)
(* the exception a call raised, if any.                                    *)

World ==
    [ models |-> models, sceneObjs |-> sceneObjs, animations |-> animations,
      nextId |-> nextId, loads |-> loads, execs |-> execs, micro |-> micro,
      chat |-> chat, consoleErrors |-> consoleErrors, unhandled |-> unhandled,
      currentQuiz |-> currentQuiz, quizShown |-> quizShown,
      quizFeedback |-> quizFeedback, spoken |-> spoken, threw |-> <<>> ]

Commit(w) ==
    /\ models' = w.models
    /\ sceneObjs' = w.sceneObjs
    /\ animations' = w.animations
    /\ nextId' = w.nextId
    /\ loads' = w.loads
    /\ execs' = w.execs
    /\ micro' = w.micro
    /\ chat' = w.chat
    /\ consoleErrors' = w.consoleErrors
    /\ unhandled' = w.unhandled
    /\ currentQuiz' = w.currentQuiz
    /\ quizShown' = w.quizShown
    /\ quizFeedback' = w.quizFeedback
    /\ spoken' = w.spoken
    /\ UNCHANGED <<activeObjects, scene>>

\* a || d of JavaScript for an optional number: undefined and 0 are falsy
OrDefault(v, d) == IF v = <<>> \/ v[1] = 0 THEN d ELSE v[1]

\* a || d for an optional object: every object is truthy
OrDefaultObject(v, d) == IF v = <<>> THEN d ELSE v[1]

\* a default parameter value: used for undefined only
ParamDefault(v, d) == IF v = <<>> THEN d ELSE v[1]

ModelKeys == availableModels \cup {"moon"}

Range(f) == {f[k] : k \in DOMAIN f}

---------------------------------------------------------------------------
(* SceneManager. *)

\* lines 95-134, up to the call of loader.load: the promise of the caller
\* (executor e at action idx) is settled at once or waits for the load
loadModel(w, e, idx, modelName, position, scale) ==
    IF w.models[modelName] /= <<>>
    THEN [w EXCEPT !.micro = Append(@, [k |-> "exec", exec |-> e, settled |-> "resolved"])]
    ELSE IF modelName \notin availableModels
    THEN [w EXCEPT !.micro = Append(@, [k |-> "exec", exec |-> e, settled |-> "rejected"])]
    ELSE [w EXCEPT !.loads = @ \cup {[exec |-> e, idx |-> idx, model |-> modelName,
                                       position |-> position, scale |-> scale]}]

\* lines 110-126: the loader's success callback
onLoad(w, l) ==
    LET model == [id |-> w.nextId, model |-> l.model,
                  position |-> l.position, scale |-> l.scale]
    IN [w EXCEPT !.nextId = @ + 1,
                 !.sceneObjs = @ \cup {model},
                 !.models[l.model] = <<model>>,
                 !.loads = @ \ {l},
                 !.micro = Append(@, [k |-> "exec", exec |-> l.exec, settled |-> "resolved"])]

\* lines 128-131: the loader's error callback
onLoadError(w, l) ==
    [w EXCEPT !.consoleErrors = Append(@, [src |-> "loadModel", type |-> l.model,
                                           exec |-> l.exec, idx |-> l.idx]),
              !.loads = @ \ {l},
              !.micro = Append(@, [k |-> "exec", exec |-> l.exec, settled |-> "rejected"])]

\* clearScene that also drops the loads in flight, whose promises then never
\* settle
clearSceneAbandonsLoads(w) ==
    [w EXCEPT !.sceneObjs = @ \ {m[1] : m \in {x \in Range(w.models) : x /= <<>>}},
              !.models = [k \in ModelKeys |-> <<>>],
              !.animations = <<>>,
              !.loads = {}]

\* lines 136-145
clearScene(w) ==
    [w EXCEPT !.sceneObjs = @ \ {m[1] : m \in {x \in Range(w.models) : x /= <<>>}},
              !.models = [k \in ModelKeys |-> <<>>],
              !.animations = <<>>]

\* lines 147-149
addAnimation(w, animation) == [w EXCEPT !.animations = Append(@, animation)]

\* lines 151-168
createOrbitAnimation(w, object, center, speed, radius) ==
    addAnimation(w, [object |-> object, update |-> "orbit", center |-> <<center>>,
                     speed |-> ParamDefault(speed, 10),
                     radius |-> <<ParamDefault(radius, 3000)>>,
                     intensity |-> <<>>])

\* lines 170-189
createBeatingAnimation(w, object, speed, intensity) ==
    addAnimation(w, [object |-> object, update |-> "beat", center |-> <<>>,
                     speed |-> ParamDefault(speed, 50),
                     radius |-> <<>>,
                     intensity |-> <<ParamDefault(intensity, 100)>>])

---------------------------------------------------------------------------
(* VoiceSystem and QuizEngine. *)

\* lines 205-207: synth.cancel() ends the utterance being spoken, the latest
cancelSpeaking(sp) ==
    [i \in DOMAIN sp |-> IF i = Len(sp) THEN [sp[i] EXCEPT !.state = "cancelled"]
                          ELSE sp[i]]

\* speak without the test of isVoiceEnabled of line 203
speakAlways(w, text, synthSpeaking) ==
    IF ~synthPresent THEN [w EXCEPT !.threw = <<"TypeError">>]
    ELSE [w EXCEPT !.spoken = Append(IF synthSpeaking THEN cancelSpeaking(@) ELSE @,
                                     [text |-> text, state |-> "requested"])]

\* lines 202-215; text is the pieces the caller concatenates; synthSpeaking is what synth.speaking reads, which the speech
\* engine decides; without window.speechSynthesis, this.synth.speaking raises
speak(w, text, synthSpeaking) ==
    IF ~isVoiceEnabled THEN w
    ELSE IF ~synthPresent THEN [w EXCEPT !.threw = <<"TypeError">>]
    ELSE [w EXCEPT !.spoken = Append(IF synthSpeaking THEN cancelSpeaking(@) ELSE @,
                                     [text |-> text, state |-> "requested"])]

\* the values synth.speaking may have: an utterance that was requested and not
\* cancelled is still being spoken or has ended
SynthSpeaking ==
    IF spoken /= <<>> /\ spoken[Len(spoken)].state = "requested"
    THEN BOOLEAN ELSE {FALSE}

\* lines 266-269
createQuiz(w, quizData) == [w EXCEPT !.currentQuiz = <<quizData>>]

\* checkAnswer grading every option of the quiz as correct
checkAnswerAnyOption(w, selectedOption) ==
    IF w.currentQuiz = <<>> THEN <<>>
    ELSE LET quiz == w.currentQuiz[1]
             isCorrect == selectedOption \in Range(quiz.options)
         IN << [ isCorrect |-> isCorrect,
                 correctAnswer |-> quiz.correctAnswer,
                 feedback |-> IF isCorrect THEN quiz.correctFeedback
                              ELSE quiz.incorrectFeedback ] >>

\* lines 271-280: <<>> is null
checkAnswer(w, selectedOption) ==
    IF w.currentQuiz = <<>> THEN <<>>
    ELSE LET quiz == w.currentQuiz[1]
             isCorrect == selectedOption = quiz.correctAnswer
         IN << [ isCorrect |-> isCorrect,
                 correctAnswer |-> quiz.correctAnswer,
                 feedback |-> IF isCorrect THEN quiz.correctFeedback
                              ELSE quiz.incorrectFeedback ] >>

---------------------------------------------------------------------------
(* UIManager. *)

\* lines 607-614; kind tells the message texts of the code apart
addChatMessage(w, sender, kind, message, type) ==
    [w EXCEPT !.chat = Append(@, [sender |-> sender, kind |-> kind,
                                  text |-> message, type |-> type, id |-> 0])]

\* lines 616-625; id stands for 'loading-' + Date.now()
showLoading(w, id) ==
    [w EXCEPT !.chat = Append(@, [sender |-> "", kind |-> "loading",
                                  text |-> "AI Teacher is thinking...",
                                  type |-> "ai", id |-> id])]

\* lines 627-632: getElementById finds the first element with the id
hideLoading(w, id) ==
    LET at == {i \in DOMAIN w.chat : w.chat[i].id = id} IN
    IF at = {} THEN w
    ELSE LET first == CHOOSE i \in at : \A j \in at : i <= j
         IN [w EXCEPT !.chat = SubSeq(@, 1, first - 1) \o SubSeq(@, first + 1, Len(@))]

\* lines 567-591
displayQuiz(w, quizData) ==
    [createQuiz(w, quizData) EXCEPT !.quizShown = <<quizData>>,
                                    !.quizFeedback = <<>>]

\* lines 535-559: one animate action of executor e
animateAction(w, e, action) ==
    LET model == w.models[action.object]
        done(w1, tag) == [w1 EXCEPT !.execs[e].ran = Append(@, tag)]
    IN IF model = <<>> THEN done(w, "noTarget")
       ELSE IF action.animation = "orbit"
       THEN done(createOrbitAnimation(w, model[1],
                                      OrDefaultObject(action.center, Origin),
                                      <<OrDefault(action.speed, 10)>>,
                                      <<OrDefault(action.radius, 3000)>>), "animated")
       ELSE IF action.animation = "beat"
       THEN done(createBeatingAnimation(w, model[1],
                                        <<OrDefault(action.speed, 100)>>,
                                        <<OrDefault(action.intensity, 100)>>), "animated")
       ELSE IF action.animation = "pulse"
       THEN done(createBeatingAnimation(w, model[1],
                                        <<OrDefault(action.speed, 200)>>,
                                        <<OrDefault(action.intensity, 50)>>), "animated")
       ELSE done(w, "noAnimation")

\* the executor without its await: a loadModel is started and the loop goes on
RECURSIVE runExecutorNoAwait(_, _)
runExecutorNoAwait(w, e) ==
    LET x == w.execs[e] IN
    IF x.pc > Len(x.actions)
    THEN [w EXCEPT !.execs[e].st = "fulfilled"]
    ELSE LET action == x.actions[x.pc] IN
         IF action.type = "loadModel"
         THEN runExecutorNoAwait(
                  [loadModel(w, e, x.pc, action.model,
                             OrDefaultObject(action.position, Origin),
                             OrDefault(action.scale, 1000))
                     EXCEPT !.execs[e].pc = @ + 1,
                            !.execs[e].ran = Append(@, "resolved")], e)
         ELSE runExecutorNoAwait([animateAction(w, e, action)
                                    EXCEPT !.execs[e].pc = @ + 1], e)

\* lines 524-565: executor e runs from its action pc up to its next await:
\* an animate action is synchronous, a loadModel action suspends the executor
RECURSIVE runExecutor(_, _)
runExecutor(w, e) ==
    LET x == w.execs[e] IN
    IF x.pc > Len(x.actions)
    THEN [w EXCEPT !.execs[e].st = "fulfilled"]
    ELSE LET action == x.actions[x.pc] IN
         IF action.type = "loadModel"
         THEN loadModel([w EXCEPT !.execs[e].st = "await"], e, x.pc, action.model,
                        OrDefaultObject(action.position, Origin),
                        OrDefault(action.scale, 1000))
         ELSE IF action.type = "animate"
         THEN runExecutor([animateAction(w, e, action) EXCEPT !.execs[e].pc = @ + 1], e)
         ELSE runExecutor([w EXCEPT !.execs[e].pc = @ + 1,
                                    !.execs[e].ran = Append(@, "noType")], e)

\* the executor without its try/catch: a rejection ends the loop and rejects
\* the promise executeSceneActions returned
resumeExecutorNoCatch(w, e, settled) ==
    IF settled = "rejected"
    THEN [w EXCEPT !.execs[e].st = "rejected",
                   !.execs[e].ran = Append(@, "threw")]
    ELSE runExecutor([w EXCEPT !.execs[e].ran = Append(@, "resolved"),
                               !.execs[e].pc = @ + 1,
                               !.execs[e].st = "running"], e)

\* the executor with a catch block that logs nothing
resumeExecutorSilent(w, e, settled) ==
    runExecutor([w EXCEPT !.execs[e].ran =
                              Append(@, IF settled = "rejected" THEN "threw" ELSE "resolved"),
                          !.execs[e].pc = @ + 1,
                          !.execs[e].st = "running"], e)

\* lines 528-533 and 561-563: the awaited loadModel promise has settled; a
\* rejection is thrown at the await, caught and logged, and the loop goes on
resumeExecutor(w, e, settled) ==
    LET x == w.execs[e]
        w1 == IF settled = "rejected"
              THEN [w EXCEPT !.consoleErrors =
                                 Append(@, [src |-> "executeSceneActions",
                                            type |-> x.actions[x.pc].type,
                                            exec |-> e, idx |-> x.pc]),
                             !.execs[e].ran = Append(@, "threw")]
              ELSE [w EXCEPT !.execs[e].ran = Append(@, "resolved")]
    IN runExecutor([w1 EXCEPT !.execs[e].pc = @ + 1, !.execs[e].st = "running"], e)

\* lines 523-524: the call; the executor runs synchronously up to its first await
executeSceneActions(w, actions) ==
    runExecutor([w EXCEPT !.execs = Append(@, [actions |-> actions, pc |-> 1,
                                                st |-> "running", ran |-> <<>>])],
                Len(w.execs) + 1)

\* lines 505-521
handleAIResponse(w, response, synthSpeaking) ==
    IF response = <<>> THEN w
    ELSE LET r == response[1].response
             w1 == addChatMessage(w, "AI Teacher", "narration", r.narration, "ai")
             w2 == speak(w1, <<r.narration>>, synthSpeaking)
         IN IF w2.threw /= <<>> THEN w2
            ELSE LET w3 == executeSceneActions(w2, r.actions)
                 IN IF r.quiz /= <<>> THEN displayQuiz(w3, r.quiz[1]) ELSE w3

---------------------------------------------------------------------------
(* The inputs. *)

\* the data-topic values a topic button may carry, one of them unregistered
TopicIds == DOMAIN topics \cup {"mars-colony"}

\* what the user types
UserInputs ==
    { Chars(" ") \o Chars("Scale") \o Chars(" "), Chars("function"),
      Chars("Eruption"), Chars(" ") }

\* action lists a caller of executeSceneActions passes that no template holds
ClientActionLists ==
    { << LoadModelAction("moon", <<Origin>>, <<1000>>),
         OrbitAction("moon", <<>>, <<>>, <<>>),
         LoadModelAction("heart", <<>>, <<>>),
         BeatAction("pulse", "heart", <<>>, <<0>>) >>,
      << OrbitAction("earth", <<Vec(1000, 0, 0)>>, <<0>>, <<2000>>),
         LoadModelAction("sun", <<Vec(0, 1000, 0)>>, <<0>>) >> }

\* the option buttons the user clicks: a right and a wrong one of each quiz
QuizClicks == {"Gravity", "Solar wind", "4", "5", "Magma", "Lava"}

Fragments ==
    { "explain", "Explain", "EXPLAIN", "expl", "ain", "scale", "Scale",
      "function", "eruption", "hello", " " }

RECURSIVE QueriesUpTo(_)
QueriesUpTo(n) ==
    IF n = 0 THEN {<<>>}
    ELSE LET shorter == QueriesUpTo(n - 1)
         IN shorter \cup {q \o Chars(f) : q \in shorter, f \in Fragments}

ResolverQueries == QueriesUpTo(MaxFrags)

---------------------------------------------------------------------------
(* The state after construction (lines 4-12). *)

InitScene ==
    /\ currentTopic = "null"
    /\ models = [k \in ModelKeys |-> <<>>]
    /\ sceneObjs = {}
    /\ animations = <<>>
    /\ nextId = 1
    /\ loads = {}
    /\ execs = <<>>
    /\ micro = <<>>
    /\ chat = <<>>
    /\ consoleErrors = <<>>
    /\ unhandled = <<>>
    /\ currentQuiz = <<>>
    /\ quizShown = <<>>
    /\ quizFeedback = <<>>
    /\ isVoiceEnabled = TRUE
    /\ synthPresent \in BOOLEAN
    /\ spoken = <<>>
    /\ calls = <<>>
    /\ lastIntent = ""
    /\ lastResponse = <<>>
    /\ activeObjects = <<>>
    /\ scene = {}

Init ==
    /\ InitScene
    /\ lastQuery = <<>>

---------------------------------------------------------------------------
(* Tasks: the event handlers.  A task starts when no microtask is pending. *)

\* the call of processQuery with its locals recorded
CallProcessQuery(registry, topic, query) ==
    /\ lastQuery' = <<[topic |-> topic, query |-> query]>>
    /\ lastIntent' = detectIntent(topic, query)
    /\ lastResponse' = processQuery(registry, topic, query)

\* loadTopic without its call of clearScene
loadTopicNoClear(registry, topicId) ==
    /\ currentTopic' = topicId
    /\ calls' = Append(calls, [op |-> "loadTopic", arg |-> topicId])
    /\ UNCHANGED <<isVoiceEnabled, synthPresent>>
    /\ IF topicId \notin DOMAIN registry
       THEN /\ Commit([World EXCEPT !.unhandled =
                           Append(@, [in |-> "loadTopic", error |-> "TypeError"])])
            /\ UNCHANGED <<lastQuery, lastIntent, lastResponse>>
       ELSE /\ CallProcessQuery(registry, topicId, Chars("explain"))
            /\ Commit([addChatMessage(World, "AI Teacher", "loadingLesson",
                                       registry[topicId].name, "ai")
                          EXCEPT !.micro = Append(@, [k |-> "turn", from |-> "loadTopic",
                                                      response |-> processQuery(registry, topicId, Chars("explain")),
                                                      loadingId |-> 0])])

\* lines 457-468: loadTopic up to its await
loadTopic(registry, topicId) ==
    /\ currentTopic' = topicId
    /\ calls' = Append(calls, [op |-> "loadTopic", arg |-> topicId])
    /\ UNCHANGED <<isVoiceEnabled, synthPresent>>
    /\ LET w1 == clearScene(World) IN
       IF topicId \notin DOMAIN registry
       THEN \* registry[topicId] is undefined: reading .name raises outside the try
            /\ Commit([w1 EXCEPT !.unhandled =
                           Append(@, [in |-> "loadTopic", error |-> "TypeError"])])
            /\ UNCHANGED <<lastQuery, lastIntent, lastResponse>>
       ELSE /\ CallProcessQuery(registry, topicId, Chars("explain"))
            /\ Commit([addChatMessage(w1, "AI Teacher", "loadingLesson",
                                       registry[topicId].name, "ai")
                          EXCEPT !.micro = Append(@, [k |-> "turn", from |-> "loadTopic",
                                                      response |-> processQuery(registry, topicId, Chars("explain")),
                                                      loadingId |-> 0])])

\* line 15: the DOMContentLoaded handler loads the default topic
Boot ==
    /\ calls = <<>>
    /\ loadTopic(topics, "solar-system")

\* lines 435-438: a topic button is clicked
ClickTopic(topicId) ==
    /\ calls /= <<>> /\ micro = <<>>
    /\ Len(calls) <= MaxCalls
    /\ loadTopic(topics, topicId)

\* handleUserInput resolving the query against the default topic instead of
\* the current one
HandleUserInputDefaultTopic(raw) ==
    /\ calls /= <<>> /\ micro = <<>>
    /\ Len(calls) <= MaxCalls
    /\ calls' = Append(calls, [op |-> "handleUserInput", arg |-> raw])
    /\ UNCHANGED <<currentTopic, isVoiceEnabled, synthPresent>>
    /\ LET userInput == Trim(raw)
           loadingId == Len(calls) + 1
       IN IF userInput = <<>>
          THEN /\ Commit(World)
               /\ UNCHANGED <<lastQuery, lastIntent, lastResponse>>
          ELSE /\ CallProcessQuery(topics, "solar-system", userInput)
               /\ Commit([showLoading(addChatMessage(World, "You", "user", userInput, "user"),
                                      loadingId)
                             EXCEPT !.micro = Append(@, [k |-> "turn", from |-> "handleUserInput",
                                                         response |-> processQuery(topics, "solar-system", userInput),
                                                         loadingId |-> loadingId])])

\* lines 476-491: handleUserInput up to its await
handleUserInput(registry, raw) ==
    /\ calls' = Append(calls, [op |-> "handleUserInput", arg |-> raw])
    /\ UNCHANGED <<currentTopic, isVoiceEnabled, synthPresent>>
    /\ LET userInput == Trim(raw)
           loadingId == Len(calls) + 1
       IN IF userInput = <<>>
          THEN /\ Commit(World)
               /\ UNCHANGED <<lastQuery, lastIntent, lastResponse>>
          ELSE /\ CallProcessQuery(registry, currentTopic, userInput)
               /\ Commit([showLoading(addChatMessage(World, "You", "user", userInput, "user"),
                                      loadingId)
                             EXCEPT !.micro = Append(@, [k |-> "turn", from |-> "handleUserInput",
                                                         response |-> processQuery(registry, currentTopic, userInput),
                                                         loadingId |-> loadingId])])

\* lines 440-449: the send button is clicked or Enter is pressed
HandleUserInput(raw) ==
    /\ calls /= <<>> /\ micro = <<>>
    /\ Len(calls) <= MaxCalls
    /\ handleUserInput(topics, raw)

\* a client calls executeSceneActions with a list of its own
CallExecuteSceneActions(actions) ==
    /\ calls /= <<>> /\ micro = <<>>
    /\ Len(calls) <= MaxCalls
    /\ calls' = Append(calls, [op |-> "executeSceneActions", arg |-> actions])
    /\ Commit(executeSceneActions(World, actions))
    /\ UNCHANGED <<currentTopic, isVoiceEnabled, synthPresent,
                   lastQuery, lastIntent, lastResponse>>

\* lines 593-605
handleQuizAnswer(selectedOption, synthSpeaking) ==
    /\ calls' = Append(calls, [op |-> "handleQuizAnswer", arg |-> selectedOption])
    /\ UNCHANGED <<currentTopic, isVoiceEnabled, synthPresent,
                   lastQuery, lastIntent, lastResponse>>
    /\ LET result == checkAnswer(World, selectedOption) IN
       IF result = <<>> THEN Commit(World)
       ELSE LET w1 == [World EXCEPT !.quizFeedback =
                           <<[text |-> result[1].feedback,
                              class |-> IF result[1].isCorrect THEN "correct" ELSE "incorrect"]>>]
                w2 == speak(w1, <<IF result[1].isCorrect THEN "Correct! " ELSE "Incorrect. ",
                                  result[1].feedback>>, synthSpeaking)
            IN IF w2.threw /= <<>>
               THEN Commit([w2 EXCEPT !.unhandled =
                               Append(@, [in |-> "handleQuizAnswer", error |-> w2.threw[1]])])
               ELSE Commit(w2)

\* line 584: an option button of the displayed quiz is clicked
HandleQuizAnswer(selectedOption, synthSpeaking) ==
    /\ calls /= <<>> /\ micro = <<>>
    /\ Len(calls) <= MaxCalls
    /\ quizShown /= <<>>
    /\ selectedOption \in Range(quizShown[1].options)
    /\ handleQuizAnswer(selectedOption, synthSpeaking)

\* lines 451-454 and 217-220
ToggleVoice ==
    /\ calls /= <<>> /\ micro = <<>>
    /\ Len(calls) <= MaxCalls
    /\ calls' = Append(calls, [op |-> "toggleVoice", arg |-> ""])
    /\ isVoiceEnabled' = ~isVoiceEnabled
    /\ UNCHANGED <<currentTopic, models, sceneObjs, animations, nextId, loads,
                   execs, micro, chat, consoleErrors, unhandled, currentQuiz,
                   quizShown, quizFeedback, synthPresent, spoken,
                   lastQuery, lastIntent, lastResponse, activeObjects, scene>>

\* lines 110-126: a GLTF load in flight succeeds
LoadDone(l) ==
    /\ micro = <<>>
    /\ l \in loads
    /\ Commit(onLoad(World, l))
    /\ UNCHANGED <<currentTopic, isVoiceEnabled, synthPresent, calls,
                   lastQuery, lastIntent, lastResponse>>

\* lines 128-131: a GLTF load in flight fails
LoadFailed(l) ==
    /\ micro = <<>>
    /\ l \in loads
    /\ Cardinality({i \in DOMAIN consoleErrors : consoleErrors[i].src = "loadModel"})
           < MaxLoadErrors
    /\ Commit(onLoadError(World, l))
    /\ UNCHANGED <<currentTopic, isVoiceEnabled, synthPresent, calls,
                   lastQuery, lastIntent, lastResponse>>

---------------------------------------------------------------------------
(* Microtasks: the continuation at the head of the queue runs. *)

\* lines 469-473 and 493-502: the await of processQuery returns
turnContinuation(w, c, synthSpeaking) ==
    LET w1 == IF c.from = "handleUserInput" THEN hideLoading(w, c.loadingId) ELSE w
        w2 == handleAIResponse(w1, c.response, synthSpeaking)
    IN IF w2.threw = <<>> THEN w2
       ELSE LET w3 == [w2 EXCEPT !.threw = <<>>,
                                 !.consoleErrors =
                                     Append(@, [src |-> c.from, type |-> w2.threw[1],
                                                exec |-> 0, idx |-> 0])]
                w4 == IF c.from = "handleUserInput" THEN hideLoading(w3, c.loadingId) ELSE w3
            IN addChatMessage(w4, "AI Teacher", "error", c.from, "ai")

ResumeTurn(synthSpeaking) ==
    /\ micro /= <<>>
    /\ Head(micro).k = "turn"
    /\ Commit(turnContinuation([World EXCEPT !.micro = Tail(@)], Head(micro),
                               synthSpeaking))
    /\ UNCHANGED <<currentTopic, isVoiceEnabled, synthPresent, calls,
                   lastQuery, lastIntent, lastResponse>>

ResumeExecutor ==
    /\ micro /= <<>>
    /\ Head(micro).k = "exec"
    /\ Commit(resumeExecutor([World EXCEPT !.micro = Tail(@)],
                             Head(micro).exec, Head(micro).settled))
    /\ UNCHANGED <<currentTopic, isVoiceEnabled, synthPresent, calls,
                   lastQuery, lastIntent, lastResponse>>

---------------------------------------------------------------------------

Next ==
    \/ Boot
    \/ \E t \in TopicIds : ClickTopic(t)
    \/ \E raw \in UserInputs : HandleUserInput(raw)
    \/ \E actions \in ClientActionLists : CallExecuteSceneActions(actions)
    \/ \E o \in QuizClicks, sp \in SynthSpeaking : HandleQuizAnswer(o, sp)
    \/ ToggleVoice
    \/ \E l \in loads : LoadDone(l)
    \/ \E l \in loads : LoadFailed(l)
    \/ \E sp \in SynthSpeaking : ResumeTurn(sp)
    \/ ResumeExecutor

Spec == Init /\ [][Next]_vars

\* a GLTF load in flight settles: its success or its error callback runs
LoadSettles == \E l \in loads : LoadDone(l) \/ LoadFailed(l)

\* the microtask at the head of the queue runs
MicrotaskRuns == (\E sp \in SynthSpeaking : ResumeTurn(sp)) \/ ResumeExecutor

\* the handlers that start executors and switch topics, the loads and the
\* microtasks
ExecNext ==
    \/ Boot
    \/ \E t \in TopicIds : ClickTopic(t)
    \/ \E actions \in ClientActionLists : CallExecuteSceneActions(actions)
    \/ LoadSettles
    \/ MicrotaskRuns

\* the event loop runs every pending microtask, and every load the loader has
\* started calls one of its callbacks
FairSpec ==
    Init /\ [][ExecNext]_vars /\ WF_vars(MicrotaskRuns) /\ WF_vars(LoadSettles)

---------------------------------------------------------------------------
(* The resolver alone: processQuery is applied once to a topic id and a    *)
(* query drawn from the fragments; lastIntent = "" until it has run.       *)

ResolverInit ==
    /\ InitScene
    /\ lastQuery \in {<<[topic |-> t, query |-> q]>> :
                         t \in TopicIds \cup {"null"}, q \in ResolverQueries}

Resolve ==
    /\ lastIntent = ""
    /\ lastQuery /= <<>>
    /\ CallProcessQuery(topics, lastQuery[1].topic, lastQuery[1].query)
    /\ UNCHANGED <<currentTopic, models, sceneObjs, animations, nextId, loads,
                   execs, micro, chat, consoleErrors, unhandled, currentQuiz,
                   quizShown, quizFeedback, isVoiceEnabled, synthPresent,
                   spoken, calls, activeObjects, scene>>

ResolverSpec == ResolverInit /\ [][Resolve]_vars

---------------------------------------------------------------------------
(* The quiz alone: from the state after construction a client displays     *)
(* quizzes of the registry and answers, also when no quiz is on display.   *)

\* the quizzes of the registry with one more, whose correctAnswer is none of
\* its options
RegistryQuizzesWithStray ==
    UNION { {topics[t].responses[i].quiz[1] :
                 i \in {j \in DOMAIN topics[t].responses :
                            topics[t].responses[j].quiz /= <<>>}} :
            t \in DOMAIN topics }
    \cup { [ question |-> "How many chambers does the human heart have?",
             options |-> << "2", "3", "5", "5" >>,
             correctAnswer |-> "4",
             correctFeedback |-> "That's right! The heart has four chambers",
             incorrectFeedback |-> "Actually, the human heart has four chambers" ] }

\* the quizzes of the registry's templates
RegistryQuizzes ==
    UNION { {topics[t].responses[i].quiz[1] :
                 i \in {j \in DOMAIN topics[t].responses :
                            topics[t].responses[j].quiz /= <<>>}} :
            t \in DOMAIN topics }

\* lines 567-591 called with a quiz of the registry
ShowQuiz(quizData) ==
    /\ Len(calls) <= MaxCalls
    /\ calls' = Append(calls, [op |-> "displayQuiz", arg |-> quizData.question])
    /\ Commit(displayQuiz(World, quizData))
    /\ UNCHANGED <<currentTopic, isVoiceEnabled, synthPresent,
                   lastQuery, lastIntent, lastResponse>>

\* lines 593-605 called with any of the option texts
AnswerQuiz(selectedOption, synthSpeaking) ==
    /\ Len(calls) <= MaxCalls
    /\ handleQuizAnswer(selectedOption, synthSpeaking)

QuizNext ==
    \/ \E q \in RegistryQuizzes : ShowQuiz(q)
    \/ \E o \in QuizClicks, sp \in SynthSpeaking : AnswerQuiz(o, sp)

QuizSpec == Init /\ [][QuizNext]_vars

---------------------------------------------------------------------------
(* A registry with one more topic, which has no explain template: the page *)
(* with a topic a client has added to aiOrchestrator.topics, and a button  *)
(* for it.                                                                 *)

ClientTopics ==
    topics @@
    ( "lab" :> [ name |-> "Lab", responses |->
        [ tour |->
            [ narration |-> "Welcome to the lab.",
              actions |-> << LoadModelAction("heart", <<>>, <<>>) >>,
              quiz |-> <<>> ] ] ] )

\* lines 435-438: the button of the added topic is clicked
ClickClientTopic ==
    /\ calls /= <<>> /\ micro = <<>>
    /\ Len(calls) <= MaxCalls
    /\ loadTopic(ClientTopics, "lab")

\* lines 440-449: a query is sent on the page with the added topic
AskClientTopic(raw) ==
    /\ calls /= <<>> /\ micro = <<>>
    /\ Len(calls) <= MaxCalls
    /\ handleUserInput(ClientTopics, raw)

ClientNext ==
    \/ Boot
    \/ ClickClientTopic
    \/ \E raw \in UserInputs : AskClientTopic(raw)
    \/ ToggleVoice
    \/ \E l \in loads : LoadDone(l)
    \/ \E sp \in SynthSpeaking : ResumeTurn(sp)
    \/ ResumeExecutor

ClientSpec == Init /\ [][ClientNext]_vars

---------------------------------------------------------------------------
(* app.js: the scene, the list activeObjects and the topic buttons.  A     *)
(* mesh is its identity and what it depicts; nextId numbers the meshes.    *)

AppWorld == [activeObjects |-> activeObjects, scene |-> scene, nextId |-> nextId]

\* new THREE.Mesh, scene.add(mesh), activeObjects.push(mesh)
addMesh(w, kind) ==
    LET mesh == [id |-> w.nextId, kind |-> kind]
    IN  [w EXCEPT !.scene = @ \cup {mesh},
                  !.activeObjects = Append(@, mesh),
                  !.nextId = @ + 1]

\* lines 29-32 of app.js (clearScene)
appClearScene(w) ==
    [w EXCEPT !.scene = @ \ Range(w.activeObjects), !.activeObjects = <<>>]

addCube(w) == addMesh(w, "cube")

\* line 60: the orbit radii of the planets, in thousandths
distances == <<2000, 3500, 5000>>

RECURSIVE addPlanets(_, _)
\* lines 62-70: distances.forEach from index i on
addPlanets(w, i) ==
    IF i > Len(distances) THEN w ELSE addPlanets(addMesh(w, "planet"), i + 1)

addSolarSystem(w) == addPlanets(addMesh(w, "sun"), 1)

\* line 92: the number of lava particles
ParticleCount == 50

RECURSIVE addParticles(_, _)
\* lines 92-101: the for loop from i on
addParticles(w, i) ==
    IF i < ParticleCount THEN addParticles(addMesh(w, "particle"), i + 1) ELSE w

addVolcano(w) == addParticles(addMesh(w, "cone"), 0)

addHeart(w) == addMesh(w, "heart")

\* the data-topic values of the buttons: the three the handler knows, one it
\* does not, and "null" for a button without the attribute
AppTopicIds == {"solar-system", "volcano", "heart-anatomy", "photosynthesis", "null"}

AppCommit(w) ==
    /\ activeObjects' = w.activeObjects
    /\ scene' = w.scene
    /\ nextId' = w.nextId
    /\ UNCHANGED <<currentTopic, models, sceneObjs, animations, loads, execs,
                   micro, chat, consoleErrors, unhandled, currentQuiz,
                   quizShown, quizFeedback, isVoiceEnabled, synthPresent,
                   spoken, lastQuery, lastIntent, lastResponse>>

\* the dispatch of lines 148-151
addTopicObjects(w, topic) ==
    IF topic = "solar-system" THEN addSolarSystem(w)
    ELSE IF topic = "volcano" THEN addVolcano(w)
    ELSE IF topic = "heart-anatomy" THEN addHeart(w)
    ELSE addCube(w)

\* line 141: the script adds the default cube when the page loads
RunScript ==
    /\ calls = <<>>
    /\ calls' = Append(calls, [op |-> "script", arg |-> "null"])
    /\ AppCommit(addCube(AppWorld))

\* the click handler without its call of clearScene
ClickTopicButtonNoClear(topic) ==
    /\ calls /= <<>>
    /\ Len(calls) <= MaxClicks
    /\ calls' = Append(calls, [op |-> "click", arg |-> topic])
    /\ AppCommit(addTopicObjects(AppWorld, topic))

\* lines 145-152: a topic button is clicked
ClickTopicButton(topic) ==
    /\ calls /= <<>>
    /\ Len(calls) <= MaxClicks
    /\ calls' = Append(calls, [op |-> "click", arg |-> topic])
    /\ AppCommit(addTopicObjects(appClearScene(AppWorld), topic))

AppNext ==
    \/ RunScript
    \/ \E topic \in AppTopicIds : ClickTopicButton(topic)

AppSpec == Init /\ [][AppNext]_vars

---------------------------------------------------------------------------
(* Properties. *)

\* what executor e still waits for: its GLTF loads in flight, and its settled
\* promises whose continuation has not run yet
InFlight(e) == {l \in loads : l.exec = e}

Settled(e) == {i \in DOMAIN micro : micro[i].k = "exec" /\ micro[i].exec = e}

LoadTags == {"resolved", "threw"}

\* C1: an executor runs its actions in list order, one at a time: the actions
\* before its position have all completed, in order, at most one action is in
\* progress (a loadModel whose promise is awaited), it is the action at the
\* position, and no load of an earlier or later action is in flight; so an
\* animate action runs after every earlier loadModel of its list has settled.
C1_SequentialExecution ==
    \A e \in DOMAIN execs :
        LET x == execs[e] IN
        /\ Len(x.ran) = x.pc - 1
        /\ x.pc <= Len(x.actions) + 1
        /\ \A i \in DOMAIN x.ran :
               (x.actions[i].type = "loadModel") <=> (x.ran[i] \in LoadTags)
        /\ Cardinality(InFlight(e)) + Cardinality(Settled(e)) <= 1
        /\ \A l \in InFlight(e) : l.idx = x.pc
        /\ (x.st = "await") <=> (Cardinality(InFlight(e)) + Cardinality(Settled(e)) = 1)
        /\ x.st = "await" => x.actions[x.pc].type = "loadModel"
        /\ x.st /= "await" => x.pc = Len(x.actions) + 1

\* the solar-system list has run to its end: both loads resolved, one after
\* the other, and the orbit found the earth the second load registered
C1_Witness ==
    \E e \in DOMAIN execs :
        /\ execs[e].actions = topics["solar-system"].responses.explain.actions
        /\ execs[e].st = "fulfilled"
        /\ execs[e].ran = <<"resolved", "resolved", "animated">>

\* C2: whatever actions of a list fail, the executor's promise never rejects,
\* and a list that has ended has attempted each of its actions exactly once,
\* the ones after a failed action included.
C2_FailuresDoNotAbort ==
    \A e \in DOMAIN execs :
        LET x == execs[e] IN
        /\ x.st \in {"await", "fulfilled"}
        /\ x.st = "fulfilled" => Len(x.ran) = Len(x.actions)
        /\ \A i \in DOMAIN x.ran : x.ran[i] = "threw" => x.pc > i
        /\ unhandled = <<>> \/ \A i \in DOMAIN unhandled :
               unhandled[i].in /= "executeSceneActions"

\* a list whose first action failed (the unknown key moon) and whose third
\* failed (a load error) has run all four actions
C2_Witness ==
    \E e \in DOMAIN execs :
        /\ execs[e].st = "fulfilled"
        /\ execs[e].ran = <<"threw", "noTarget", "threw", "noTarget">>


Last(q) == q[Len(q)]

ExplainModels(t) ==
    {a.model : a \in {x \in Range(topics[t].responses.explain.actions) :
                          x.type = "loadModel"}}

Registered == {models[k][1] : k \in {j \in ModelKeys : models[j] /= <<>>}}

Quiet == loads = {} /\ micro = <<>>

\* C3: after loadTopic(t) twice in a row for a registered topic t (and nothing
\* else), once every load has settled (here: resolved), the scene holds exactly
\* one instance of each model of t's explain template and every instance in
\* the scene is the registered one.
C3_ReloadLeavesOneInstance ==
    ( /\ Len(calls) >= 2
      /\ calls[1].arg \in DOMAIN topics
      /\ \A i \in DOMAIN calls : calls[i] = [op |-> "loadTopic", arg |-> calls[1].arg]
      /\ Quiet
      /\ consoleErrors = <<>>
      /\ \A e \in DOMAIN execs : execs[e].st = "fulfilled" )
    => ( /\ \A m \in ExplainModels(calls[1].arg) :
                Cardinality({o \in sceneObjs : o.model = m}) = 1
         /\ sceneObjs = Registered )

\* C4: a loadTopic call for an unregistered topic id leaves the model registry,
\* the scene contents and the animation list as they were and adds no
\* narration to the chat log.
C4_UnknownTopicLeavesSceneUnmutated ==
    [][ ( /\ calls' /= calls
          /\ Last(calls').op = "loadTopic"
          /\ Last(calls').arg \notin DOMAIN topics )
        => ( /\ models' = models
             /\ sceneObjs' = sceneObjs
             /\ animations' = animations
             /\ chat' = chat ) ]_vars

\* C5: a turn for a topic id that is not in the registry, started by loadTopic
\* or by handleUserInput, has ended with an error notice as the last message
\* of the chat log.
C5_UnknownTopicTurnEndsWithNotice ==
    ( /\ calls /= <<>>
      /\ micro = <<>>
      /\ \/ Last(calls).op = "loadTopic" /\ Last(calls).arg \notin DOMAIN topics
         \/ /\ Last(calls).op = "handleUserInput"
            /\ Trim(Last(calls).arg) /= <<>>
            /\ currentTopic \notin DOMAIN topics )
    => ( chat /= <<>> /\ Last(chat).kind = "error" )

\* the call of processQuery of the resolver specification has returned
Resolved == lastIntent /= ""

\* C6: for a topic id that is not registered processQuery returns null for
\* every query, and for a registered topic it returns a bundle of that topic,
\* never null: the two results are never the same.
C6_UnknownTopicIsNull ==
    Resolved =>
        LET t == lastQuery[1].topic IN
        /\ t \notin DOMAIN topics => lastResponse = <<>>
        /\ t \in DOMAIN topics =>
               /\ Len(lastResponse) = 1
               /\ lastResponse[1].topic = t
               /\ lastResponse[1].intent \in DOMAIN topics[t].responses

\* an unregistered topic asked to explain got null
C6_Witness ==
    /\ Resolved
    /\ lastQuery[1].topic = "mars-colony"
    /\ lastQuery[1].query = Chars("Explain")
    /\ lastIntent = "explain"
    /\ lastResponse = <<>>

\* the query holds the lower-case word at some place, letter case ignored
HasWord(query, word) ==
    \E at \in 0..(Len(query) - Len(word)) :
        \A j \in 1..Len(word) :
            \/ query[at + j] = word[j]
            \/ query[at + j] \in DOMAIN UpperToLower /\ UpperToLower[query[at + j]] = word[j]

\* C7: the classified intent follows the fixed priority order, first match
\* wins: explain; else scale on solar-system; else function on heart-anatomy;
\* else eruption on volcano; else unknown.
C7_IntentPriority ==
    Resolved =>
        LET t == lastQuery[1].topic
            q == lastQuery[1].query
        IN /\ HasWord(q, Chars("explain")) => lastIntent = "explain"
           /\ ~HasWord(q, Chars("explain")) =>
                 /\ (HasWord(q, Chars("scale")) /\ t = "solar-system") => lastIntent = "scale"
                 /\ ~(HasWord(q, Chars("scale")) /\ t = "solar-system") =>
                       /\ (HasWord(q, Chars("function")) /\ t = "heart-anatomy")
                              => lastIntent = "function"
                       /\ ~(HasWord(q, Chars("function")) /\ t = "heart-anatomy") =>
                             IF HasWord(q, Chars("eruption")) /\ t = "volcano"
                             THEN lastIntent = "eruption"
                             ELSE lastIntent = "unknown"

\* a solar-system query with both words, scale first, was classified explain
C7_Witness ==
    /\ Resolved
    /\ lastQuery[1].topic = "solar-system"
    /\ lastQuery[1].query = Chars("Scale") \o Chars("EXPLAIN")
    /\ lastIntent = "explain"

\* C8: for a registered topic and a query whose classified intent has no
\* template in the topic, the bundle has intent explain and the topic's
\* explain template.
C8_RedirectToExplain ==
    ( /\ Resolved
      /\ lastQuery[1].topic \in DOMAIN topics
      /\ lastIntent \notin DOMAIN topics[lastQuery[1].topic].responses )
    => lastResponse = << [ topic |-> lastQuery[1].topic,
                           intent |-> "explain",
                           response |-> topics[lastQuery[1].topic].responses.explain ] >>

\* scale asked of heart-anatomy was classified unknown and answered with the
\* heart's explain template
C8_Witness ==
    /\ Resolved
    /\ lastQuery[1].topic = "heart-anatomy"
    /\ lastQuery[1].query = Chars("scale")
    /\ lastIntent = "unknown"
    /\ lastResponse /= <<>>
    /\ lastResponse[1].response.narration = "This is a model of the human heart."

\* what executeSceneActions has reported of executor e: the actions, by
\* position, its catch block has logged
Reported(e) ==
    LET mine(c) == c.src = "executeSceneActions" /\ c.exec = e
        log == SelectSeq(consoleErrors, mine)
    IN [i \in DOMAIN log |-> log[i].idx]

RECURSIVE Threw(_, _)
Threw(ran, from) ==
    IF from > Len(ran) THEN <<>>
    ELSE (IF ran[from] = "threw" THEN <<from>> ELSE <<>>) \o Threw(ran, from + 1)

\* the action lists of the registry's templates
TemplateLists ==
    {topics[t].responses[i].actions : t \in DOMAIN topics, i \in {"explain"}} \cup
    { topics["solar-system"].responses.scale.actions,
      topics["heart-anatomy"].responses.function.actions,
      topics["volcano"].responses.eruption.actions }

\* C9: an animate action whose target was not in the registry when it ran is
\* logged as failed, registers no animation, throws nothing, and the executor
\* goes on (stated of the lists of the registry's templates).
C9_MissingTargetIsLogged ==
    \A e \in {x \in DOMAIN execs : execs[x].actions \in TemplateLists} :
        /\ execs[e].st /= "rejected"
        /\ \A i \in DOMAIN execs[e].ran :
               execs[e].ran[i] = "noTarget" =>
                   \E j \in DOMAIN consoleErrors :
                       consoleErrors[j].exec = e /\ consoleErrors[j].idx = i

---------------------------------------------------------------------------
(* Topic switches, the steps of a turn, and the voice. *)

\* the model keys the templates of topic t load
TopicModels(t) ==
    IF t \notin DOMAIN topics THEN {}
    ELSE UNION { {a.model : a \in {x \in Range(topics[t].responses[i].actions) :
                                       x.type = "loadModel"}} :
                 i \in DOMAIN topics[t].responses }

\* the position in calls of the most recent loadTopic call
LastSwitch ==
    CHOOSE k \in DOMAIN calls :
        /\ calls[k].op = "loadTopic"
        /\ \A j \in DOMAIN calls : calls[j].op = "loadTopic" => j <= k

\* C11: after a topic switch the registry and the scene hold no model whose
\* load was started by a turn before the switch.  Every turn since the switch
\* is a turn of the current topic, so as long as no client list has been
\* executed since, every model in the registry and in the scene is one the
\* current topic's templates load.
C11_SwitchDropsEarlierLoads ==
    ( /\ calls /= <<>>
      /\ \A j \in DOMAIN calls : j > LastSwitch => calls[j].op /= "executeSceneActions" )
    => /\ \A o \in sceneObjs : o.model \in TopicModels(currentTopic)
       /\ \A o \in Registered : o.model \in TopicModels(currentTopic)

\* the continuation about to run dispatches a bundle: its turn is a turn of a
\* registered topic
TurnOfRegisteredTopic ==
    /\ micro /= <<>>
    /\ Head(micro).k = "turn"
    /\ Head(micro).response /= <<>>

\* the template of the bundle the continuation about to run dispatches
TurnTemplate == Head(micro).response[1].response

\* C12: a turn of a registered topic performs every step, none skipped: the
\* narration is the message added to the chat log, the narration is the
\* utterance requested of the voice (when the voice is enabled), an executor is
\* started on the bundle's actions, and the quiz on display becomes the
\* bundle's quiz if it carries one and stays as it was if it carries none.
C12_TurnPerformsEveryStep ==
    [][ TurnOfRegisteredTopic =>
          /\ chat' /= <<>>
          /\ Last(chat').kind = "narration"
          /\ Last(chat').text = TurnTemplate.narration
          /\ isVoiceEnabled =>
                 /\ spoken' /= <<>>
                 /\ Len(spoken') = Len(spoken) + 1
                 /\ Last(spoken') = [text |-> <<TurnTemplate.narration>>,
                                     state |-> "requested"]
          /\ Len(execs') = Len(execs) + 1
          /\ Last(execs').actions = TurnTemplate.actions
          /\ IF TurnTemplate.quiz /= <<>>
             THEN quizShown' = TurnTemplate.quiz /\ currentQuiz' = TurnTemplate.quiz
             ELSE quizShown' = quizShown /\ currentQuiz' = currentQuiz ]_vars

\* C13: a turn of a registered topic whose request to speak fails (the voice is
\* enabled and the browser has no speech synthesis) still starts the executor
\* on the bundle's actions and surfaces the bundle's quiz, and adds no error
\* notice to the chat log.
C13_SpeechFailureIsContained ==
    [][ (TurnOfRegisteredTopic /\ isVoiceEnabled /\ ~synthPresent) =>
          /\ Len(execs') = Len(execs) + 1
          /\ Last(execs').actions = TurnTemplate.actions
          /\ TurnTemplate.quiz /= <<>> => quizShown' = TurnTemplate.quiz
          /\ \A i \in DOMAIN chat' : chat'[i].kind /= "error" ]_vars

\* C14: when the turn that loadTopic(t) dispatches for a registered topic t is
\* about to run, the registry and the animation list are empty (loadTopic
\* cleared them before it resolved), and the bundle of the turn is t's explain
\* template with intent explain, whatever calls came before.
C14_SwitchClearsThenExplains ==
    ( /\ micro /= <<>>
      /\ Head(micro).k = "turn"
      /\ Head(micro).from = "loadTopic" )
    => /\ Last(calls) = [op |-> "loadTopic", arg |-> currentTopic]
       /\ currentTopic \in DOMAIN topics
       /\ \A k \in ModelKeys : models[k] = <<>>
       /\ animations = <<>>
       /\ lastQuery = <<[topic |-> currentTopic, query |-> Chars("explain")]>>
       /\ Head(micro).response =
              << [ topic |-> currentTopic, intent |-> "explain",
                   response |-> topics[currentTopic].responses.explain ] >>

\* the third call, a switch to heart-anatomy after a user query, is about to
\* dispatch its turn; a model had been loaded before the switch
C14_Witness ==
    /\ Len(calls) = 3
    /\ calls[2].op = "handleUserInput"
    /\ calls[3] = [op |-> "loadTopic", arg |-> "heart-anatomy"]
    /\ micro /= <<>>
    /\ Head(micro).k = "turn"
    /\ Head(micro).from = "loadTopic"
    /\ nextId > 1
    /\ sceneObjs = {}

\* C15: currentTopic changes in a loadTopic call only, to the call's argument;
\* after every call of any handler it is the argument of the most recent
\* loadTopic call; and a user query is resolved against that topic: the bundle
\* queued for its turn, if there is one, is a bundle of that topic.
C15_TopicChangesOnlyInLoadTopic ==
    [][ /\ currentTopic' /= currentTopic =>
               /\ calls' /= calls
               /\ Last(calls') = [op |-> "loadTopic", arg |-> currentTopic']
        /\ calls' = calls => currentTopic' = currentTopic
        /\ (calls' /= calls /\ Last(calls').op /= "loadTopic") =>
               /\ currentTopic' = currentTopic
               /\ currentTopic = calls[LastSwitch].arg
        /\ (calls' /= calls /\ Last(calls').op = "handleUserInput"
                            /\ Trim(Last(calls').arg) /= <<>>) =>
               /\ lastQuery' = <<[topic |-> calls[LastSwitch].arg,
                                  query |-> Trim(Last(calls').arg)]>>
               /\ micro' /= <<>>
               /\ Last(micro').response = lastResponse'
               /\ lastResponse' /= <<>> =>
                      lastResponse'[1].topic = calls[LastSwitch].arg ]_vars

\* after a switch from the solar system to the volcano the query Eruption was
\* resolved as a volcano query
C15_Witness ==
    /\ Len(calls) = 3
    /\ calls[2] = [op |-> "loadTopic", arg |-> "volcano"]
    /\ calls[3].op = "handleUserInput"
    /\ currentTopic = "volcano"
    /\ lastIntent = "eruption"
    /\ lastResponse /= <<>>
    /\ lastResponse[1].topic = "volcano"

\* C16: an answer given while a quiz is current is graded correct exactly when
\* it equals the quiz's correctAnswer, with the quiz's correctFeedback then and
\* its incorrectFeedback otherwise, and the feedback element shows that
\* grading; an answer given while no quiz was ever created gets null, and
\* nothing but the record of the call changes.
C16_CheckAnswerGrades ==
    [][ (calls' /= calls /\ Last(calls').op = "handleQuizAnswer") =>
          LET selected == Last(calls').arg
              result == checkAnswer(World, selected)
          IN IF currentQuiz = <<>>
             THEN /\ result = <<>>
                  /\ UNCHANGED <<currentQuiz, quizShown, quizFeedback, spoken,
                                 chat, unhandled, consoleErrors, execs, models,
                                 sceneObjs, animations>>
             ELSE LET quiz == currentQuiz[1] IN
                  /\ Len(result) = 1
                  /\ result[1].isCorrect <=> (selected = quiz.correctAnswer)
                  /\ result[1].correctAnswer = quiz.correctAnswer
                  /\ result[1].isCorrect => result[1].feedback = quiz.correctFeedback
                  /\ ~result[1].isCorrect => result[1].feedback = quiz.incorrectFeedback
                  /\ quizFeedback' =
                         << [ text |-> IF selected = quiz.correctAnswer
                                       THEN quiz.correctFeedback
                                       ELSE quiz.incorrectFeedback,
                              class |-> IF selected = quiz.correctAnswer
                                        THEN "correct" ELSE "incorrect" ] >>
                  /\ currentQuiz' = currentQuiz ]_vars

\* Gravity was answered before any quiz was created, with no effect, then the
\* solar-system quiz was displayed and Solar wind, a wrong option, answered
C16_Witness ==
    /\ Len(calls) = 3
    /\ calls[1] = [op |-> "handleQuizAnswer", arg |-> "Gravity"]
    /\ calls[2].op = "displayQuiz"
    /\ calls[3] = [op |-> "handleQuizAnswer", arg |-> "Solar wind"]
    /\ currentQuiz /= <<>>
    /\ currentQuiz[1].correctAnswer = "Gravity"
    /\ quizFeedback = << [ text |-> "Not quite. The correct answer is Gravity",
                           class |-> "incorrect" ] >>
    /\ Len(spoken) = 1

\* the response templates of the registry
RegistryTemplates ==
    UNION { {topics[t].responses[i] : i \in DOMAIN topics[t].responses} :
            t \in DOMAIN topics }

\* C17: every topic of the registry has an explain template, and for a
\* registered topic and any query the response of the returned bundle is a
\* template of that topic, never the synthetic fallback.
C17_NeverTheFallback ==
    /\ \A t \in DOMAIN topics : "explain" \in DOMAIN topics[t].responses
    /\ fallbackResponse \notin RegistryTemplates
    /\ (Resolved /\ lastQuery[1].topic \in DOMAIN topics) =>
           /\ lastResponse /= <<>>
           /\ lastResponse[1].response /= fallbackResponse
           /\ lastResponse[1].response \in
                  {topics[lastQuery[1].topic].responses[i] :
                       i \in DOMAIN topics[lastQuery[1].topic].responses}

\* hello asked of the volcano, an intent without a template, was answered with
\* the volcano's explain template
C17_Witness ==
    /\ Resolved
    /\ lastQuery[1].topic = "volcano"
    /\ lastQuery[1].query = Chars("hello")
    /\ lastIntent = "unknown"
    /\ lastResponse /= <<>>
    /\ lastResponse[1].response = topics["volcano"].responses.explain

\* the positions of the displayed options that checkAnswer grades correct
GradedCorrect ==
    {i \in DOMAIN quizShown[1].options :
         checkAnswer(World, quizShown[1].options[i])[1].isCorrect}

\* C18: the quiz on display is the current quiz, its correctAnswer is one of
\* its options, its options are pairwise different, and checkAnswer grades
\* exactly one of the displayed options as correct.
C18_OneCorrectOption ==
    quizShown /= <<>> =>
        /\ currentQuiz = quizShown
        /\ quizShown[1].correctAnswer \in Range(quizShown[1].options)
        /\ Cardinality(Range(quizShown[1].options)) = Len(quizShown[1].options)
        /\ Cardinality(GradedCorrect) = 1

\* the heart quiz is on display and its option 4 was answered and graded correct
C18_Witness ==
    /\ Len(calls) = 2
    /\ calls[1].op = "displayQuiz"
    /\ calls[2] = [op |-> "handleQuizAnswer", arg |-> "4"]
    /\ quizShown /= <<>>
    /\ quizShown[1].options = << "2", "3", "4", "5" >>
    /\ quizFeedback /= <<>>
    /\ quizFeedback[1].class = "correct"
    /\ GradedCorrect = {3}

\* C19: with the voice disabled nothing is requested of the speech engine and
\* nothing is cancelled, by a turn or by a quiz answer, with or without speech
\* synthesis in the browser; and a turn of a registered topic still adds the
\* narration to the chat log, starts the executor on the bundle's actions and
\* surfaces the bundle's quiz.
C19_DisabledVoiceIsSilent ==
    [][ ~isVoiceEnabled =>
          /\ spoken' = spoken
          /\ TurnOfRegisteredTopic =>
                 /\ chat' /= <<>>
                 /\ Last(chat') = [sender |-> "AI Teacher", kind |-> "narration",
                                   text |-> TurnTemplate.narration,
                                   type |-> "ai", id |-> 0]
                 /\ Len(execs') = Len(execs) + 1
                 /\ Last(execs').actions = TurnTemplate.actions
                 /\ TurnTemplate.quiz /= <<>> => quizShown' = TurnTemplate.quiz
                 /\ consoleErrors' = consoleErrors
                 /\ unhandled' = unhandled ]_vars

\* after the start-up turn spoke its narration the voice was switched off and
\* the heart topic loaded: its turn narrated in the chat log, started its
\* executor and displayed its quiz, and the one utterance is the start-up's
C19_Witness ==
    /\ Len(calls) = 3
    /\ calls[2].op = "toggleVoice"
    /\ calls[3] = [op |-> "loadTopic", arg |-> "heart-anatomy"]
    /\ ~isVoiceEnabled
    /\ micro = <<>>
    /\ spoken = << [text |-> <<"This is our solar system.">>, state |-> "requested"] >>
    /\ Last(chat).text = "This is a model of the human heart."
    /\ execs /= <<>>
    /\ Last(execs).actions = topics["heart-anatomy"].responses.explain.actions
    /\ quizShown = topics["heart-anatomy"].responses.explain.quiz

\* the bundle processQuery returns for the added topic
SyntheticBundle ==
    << [topic |-> "lab", intent |-> "explain", response |-> fallbackResponse] >>

\* C20: the added topic has no explain template and no template of an intent a
\* query can have, so every query about it is answered with the synthetic
\* bundle: a narration that is not empty, no actions and no quiz; and the turn
\* that dispatches the synthetic bundle adds the narration to the chat log,
\* starts an executor that has nothing to run, leaves the scene and the quiz
\* as they were and raises nothing.
C20_SyntheticBundleIsSafe ==
    [][ /\ (calls' /= calls /\ currentTopic' = "lab" /\ micro' /= <<>>) =>
               /\ lastResponse' = SyntheticBundle
               /\ Last(micro').response = SyntheticBundle
               /\ fallbackResponse.narration /= ""
               /\ fallbackResponse.actions = <<>>
               /\ fallbackResponse.quiz = <<>>
        /\ ( /\ micro /= <<>>
             /\ Head(micro).k = "turn"
             /\ Head(micro).response = SyntheticBundle ) =>
               /\ chat' /= <<>>
               /\ Last(chat') = [sender |-> "AI Teacher", kind |-> "narration",
                                 text |-> fallbackResponse.narration,
                                 type |-> "ai", id |-> 0]
               /\ execs' = Append(execs, [actions |-> <<>>, pc |-> 1,
                                          st |-> "fulfilled", ran |-> <<>>])
               /\ UNCHANGED <<models, sceneObjs, animations, loads, quizShown,
                              currentQuiz, consoleErrors, unhandled>> ]_vars

---------------------------------------------------------------------------
(* Parameters, progress, and the animation list. *)

\* the animation the claim expects of animate action a on object: the values
\* the action specifies, a default for a parameter it omits only
ExpectedAnimation(a, object) ==
    IF a.animation = "orbit"
    THEN [object |-> object, update |-> "orbit",
          center |-> <<ParamDefault(a.center, Origin)>>,
          speed |-> ParamDefault(a.speed, 10),
          radius |-> <<ParamDefault(a.radius, 3000)>>,
          intensity |-> <<>>]
    ELSE [object |-> object, update |-> "beat", center |-> <<>>,
          speed |-> ParamDefault(a.speed, IF a.animation = "beat" THEN 100 ELSE 200),
          radius |-> <<>>,
          intensity |-> <<ParamDefault(a.intensity,
                                       IF a.animation = "beat" THEN 100 ELSE 50)>>]

\* C21: the executor hands the scene the values the action specifies, 0
\* included, and a default only for a parameter the action omits: every load
\* in flight carries the position and scale of its action (origin and 1 when
\* omitted), and every animation in the list is the one some animate action
\* of an executor specifies for its object.
C21_SpecifiedValuesAreHonoured ==
    /\ \A l \in loads :
           LET a == execs[l.exec].actions[l.idx] IN
           /\ l.position = ParamDefault(a.position, Origin)
           /\ l.scale = ParamDefault(a.scale, 1000)
    /\ \A i \in DOMAIN animations :
           \E e \in DOMAIN execs :
               \E j \in DOMAIN execs[e].actions :
                   /\ execs[e].actions[j].type = "animate"
                   /\ animations[i] = ExpectedAnimation(execs[e].actions[j],
                                                        animations[i].object)

\* executor e has attempted every action of its list and its promise is
\* fulfilled
Completed(e) ==
    /\ e \in DOMAIN execs
    /\ execs[e].st = "fulfilled"
    /\ Len(execs[e].ran) = Len(execs[e].actions)

\* C22: when every load settles, whenever an executeSceneActions call has not
\* completed, a state follows in which every call made so far has attempted
\* all actions of its list and completed, whatever topic switches, client
\* calls and load failures happen while the lists run.
C22_EveryListCompletes ==
    (\E e \in DOMAIN execs : ~Completed(e)) ~> (\A e \in DOMAIN execs : Completed(e))

\* the executor of the start-up turn completed all three actions after a topic
\* switch had happened while it was running, and the switch's executor too
C22_Witness ==
    /\ Len(calls) >= 2
    /\ calls[2].op = "loadTopic"
    /\ Len(execs) >= 2
    /\ Completed(1)
    /\ Completed(2)
    /\ Len(execs[1].actions) = 3
    /\ nextId >= 4

\* C23: every animation in the animation list drives an object that is a value
\* of the model registry.
C23_AnimationsTargetRegisteredObjects ==
    \A i \in DOMAIN animations : animations[i].object \in Registered

\* the step is not a topic switch
NotSwitch == calls' = calls \/ Last(calls').op /= "loadTopic"

\* the start-up topic has had k turns, the start-up's and k - 1 queries, that
\* all resolved to its explain template; each started its executor, every
\* executor has ended and nothing failed
SameTemplateTurns(k) ==
    /\ Len(calls) = k
    /\ \A j \in 2..k :
           /\ calls[j].op = "handleUserInput"
           /\ Trim(calls[j].arg) /= <<>>
           /\ processQuery(topics, currentTopic, Trim(calls[j].arg))
                  = processQuery(topics, currentTopic, Chars("explain"))
    /\ Len(execs) = k
    /\ \A e \in DOMAIN execs : execs[e].st = "fulfilled"
    /\ Quiet
    /\ consoleErrors = <<>>

\* the animate actions of the explain template of topic t
ExplainAnimates(t) ==
    {i \in DOMAIN topics[t].responses.explain.actions :
         topics[t].responses.explain.actions[i].type = "animate"}

\* C24: a step that is not a topic switch leaves the animations it found in
\* the list, in place; a step that is neither a topic switch nor a load
\* callback leaves the registry and the scene as they were, so a loadModel of
\* a registered key adds no instance and changes none; and k turns of one
\* topic that resolved to the same template leave one instance of each model
\* of the template, registered, and k animations for each of its animate
\* actions, all on registered instances.
C24_OneInstanceManyAnimations ==
    /\ [][ /\ NotSwitch =>
                  /\ Len(animations') >= Len(animations)
                  /\ SubSeq(animations', 1, Len(animations)) = animations
           /\ (NotSwitch /\ loads \subseteq loads') =>
                  /\ models' = models
                  /\ sceneObjs' = sceneObjs
                  /\ \A l \in loads' \ loads : models[l.model] = <<>> ]_vars
    /\ [](\A k \in 1..(MaxCalls + 1) :
            SameTemplateTurns(k) =>
                /\ \A m \in ExplainModels(currentTopic) :
                       Cardinality({o \in sceneObjs : o.model = m}) = 1
                /\ sceneObjs = Registered
                /\ Len(animations) = k * Cardinality(ExplainAnimates(currentTopic))
                /\ \A i \in DOMAIN animations : animations[i].object \in Registered)

\* the continuation about to run dispatches a bundle that carries a quiz
TurnWithQuiz == TurnOfRegisteredTopic /\ TurnTemplate.quiz /= <<>>

\* C25: the turn of a bundle that carries a quiz makes that quiz the current
\* quiz of the quiz engine; every other step (a turn without a quiz, a topic
\* switch before its turn runs, a query, an answer, a load) leaves the current
\* quiz as it was, and an answer is graded against it.
C25_CurrentQuizIsLatestTurnQuiz ==
    [][ /\ TurnWithQuiz => currentQuiz' = TurnTemplate.quiz
        /\ ~TurnWithQuiz => currentQuiz' = currentQuiz
        /\ (calls' /= calls /\ Last(calls').op = "handleQuizAnswer"
                            /\ currentQuiz /= <<>>) =>
               /\ quizFeedback' /= <<>>
               /\ quizFeedback'[1].text \in {currentQuiz[1].correctFeedback,
                                             currentQuiz[1].incorrectFeedback} ]_vars

\* the topic whose objects the page shows: the one of the latest click, and
\* none ("null", the default cube) before the first click
ShownTopic == IF Last(calls).op = "click" THEN Last(calls).arg ELSE "null"

\* the meshes a topic consists of
TopicObjectCount(topic) ==
    CASE topic = "solar-system"  -> 4
      [] topic = "volcano"       -> 51
      [] topic = "heart-anatomy" -> 1
      [] OTHER                   -> 1

TopicObjectKinds(topic) ==
    CASE topic = "solar-system"  -> {"sun", "planet"}
      [] topic = "volcano"       -> {"cone", "particle"}
      [] topic = "heart-anatomy" -> {"heart"}
      [] OTHER                   -> {"cube"}

\* C26: on the page of app.js, once the script has run and after any clicks,
\* activeObjects holds the objects of the most recently clicked topic (1 for
\* the cube, 4 for solar-system, 51 for volcano, 1 for heart-anatomy), each
\* once; they are exactly the children of the scene, all of them were created
\* by the latest click, and a click with an unknown topic id gives one cube.
C26_ActiveObjectsAreTheShownTopic ==
    calls /= <<>> =>
        /\ Len(activeObjects) = TopicObjectCount(ShownTopic)
        /\ \A i \in DOMAIN activeObjects :
               activeObjects[i].kind \in TopicObjectKinds(ShownTopic)
        /\ Cardinality({i \in DOMAIN activeObjects :
                            activeObjects[i].kind \in {"sun", "cone", "heart", "cube"}}) = 1
        /\ \A i, j \in DOMAIN activeObjects :
               activeObjects[i] = activeObjects[j] => i = j
        /\ scene = Range(activeObjects)
        /\ \A o \in scene : o.id >= nextId - Len(activeObjects)
        /\ (ShownTopic \notin {"solar-system", "volcano", "heart-anatomy"}) =>
               /\ Len(activeObjects) = 1
               /\ activeObjects[1].kind = "cube"

\* volcano, then solar-system, then an unknown id: one cube, the 58th mesh
C26_Witness ==
    /\ Len(calls) = 4
    /\ calls[2].arg = "volcano"
    /\ calls[3].arg = "solar-system"
    /\ calls[4] = [op |-> "click", arg |-> "photosynthesis"]
    /\ Len(activeObjects) = 1
    /\ activeObjects[1] = [id |-> 57, kind |-> "cube"]
    /\ scene = {activeObjects[1]}

=============================================================================
